---- MODULE Spec2Model ----
(***************************************************************************)
(* A model of qualifier.py: the uwu and pig-latin transformers, the Quote  *)
(* entity, the command dispatcher run_command and the quote Database.      *)
(*                                                                         *)
(* A Python str is a sequence of characters; a character is a one-letter   *)
(* TLA+ string.  The two typographic double quotes are the characters      *)
(* LDQUO and RDQUO.  The model follows Python 3.12, where                  *)
(* `operation in VariantMode` is a test on the members' values.            *)
(***************************************************************************)
EXTENDS Naturals, Sequences, FiniteSets

VARIABLES quotes, call

vars == <<quotes, call>>

(***************************************************************************)
(* Program constants.                                                      *)
(***************************************************************************)
MAX_QUOTE_LENGTH == 50

NORMAL == <<"n", "o", "r", "m", "a", "l">>
UWU == <<"u", "w", "u">>
PIGLATIN == <<"p", "i", "g", "l", "a", "t", "i", "n">>

VariantMode == {NORMAL, UWU, PIGLATIN}

(***************************************************************************)
(* The str methods the program uses, on ASCII text.                        *)
(***************************************************************************)
Uppers == <<"A", "B", "C", "D", "E", "F", "G", "H", "I", "J", "K", "L", "M",
            "N", "O", "P", "Q", "R", "S", "T", "U", "V", "W", "X", "Y", "Z">>

Lowers == <<"a", "b", "c", "d", "e", "f", "g", "h", "i", "j", "k", "l", "m",
            "n", "o", "p", "q", "r", "s", "t", "u", "v", "w", "x", "y", "z">>

Whitespace == {" ", "\t", "\n", "\r"}

CharLower(c) ==
    IF \E i \in 1..Len(Uppers) : Uppers[i] = c
    THEN Lowers[CHOOSE i \in 1..Len(Uppers) : Uppers[i] = c]
    ELSE c

CharUpper(c) ==
    IF \E i \in 1..Len(Lowers) : Lowers[i] = c
    THEN Uppers[CHOOSE i \in 1..Len(Lowers) : Lowers[i] = c]
    ELSE c

\* str.lower()
StrLower(s) == [i \in 1..Len(s) |-> CharLower(s[i])]

\* str.capitalize(): the first character upper-cased, the rest lower-cased
StrCapitalize(s) ==
    [i \in 1..Len(s) |-> IF i = 1 THEN CharUpper(s[i]) ELSE CharLower(s[i])]

\* str.replace(old, new) for one-character old and new
StrReplace(s, old, new) == [i \in 1..Len(s) |-> IF s[i] = old THEN new ELSE s[i]]

\* F(x) with x evaluated once (TLC evaluates a LET definition at each use)
Bind(x, F(_)) == CHOOSE r \in {F(y) : y \in {x}} : TRUE

Indices(s) == [i \in 1..Len(s) |-> i]

\* The maximal runs of s between separators; sep[i] tells whether s[i] separates
RunsBetween(s, sep) ==
    Bind(SelectSeq(Indices(s), LAMBDA i : ~sep[i] /\ (i = 1 \/ sep[i - 1])),
         LAMBDA starts :
            Bind(SelectSeq(Indices(s), LAMBDA i : ~sep[i] /\ (i = Len(s) \/ sep[i + 1])),
                 LAMBDA ends :
                    [k \in 1..Len(starts) |-> SubSeq(s, starts[k], ends[k])]))

\* str.split(): the maximal runs of non-whitespace characters
StrSplit(s) == RunsBetween(s, [i \in 1..Len(s) |-> s[i] \in Whitespace])

RECURSIVE JoinRange(_, _, _, _)
JoinRange(sep, words, lo, hi) ==
    IF lo > hi THEN <<>>
    ELSE IF lo = hi THEN words[lo]
    ELSE JoinRange(sep, words, lo, (lo + hi) \div 2) \o sep
         \o JoinRange(sep, words, (lo + hi) \div 2 + 1, hi)

\* sep.join(words)
StrJoin(sep, words) == Bind(words, LAMBDA ws : JoinRange(sep, ws, 1, Len(ws)))

\* word.startswith(("u", "U"))
StartsWithU(word) == Len(word) > 0 /\ word[1] \in {"u", "U"}

(***************************************************************************)
(* The transformers.  A call's outcome is a record: raised is "none" or    *)
(* the exception, ret the returned string (<<>> when the call raised),     *)
(* warned whether warnings.warn was called.                                *)
(***************************************************************************)
Returned(s, w) == [raised |-> "none", ret |-> s, warned |-> w]

Raised(e, w) == [raised |-> e, ret |-> <<>>, warned |-> w]

NotModified == "ValueError: Quote was not modified"

UwuBase(quote) ==
    StrReplace(StrReplace(StrReplace(StrReplace(quote, "l", "w"), "L", "W"), "r", "w"), "R", "W")

UwuStutter(base) ==
    Bind(StrSplit(base), LAMBDA words :
        StrJoin(<<" ">>,
                [i \in 1..Len(words) |->
                    IF StartsWithU(words[i])
                    THEN <<words[i][1], "-">> \o words[i]
                    ELSE words[i]]))

UwuResult(quote, base, full) ==
    LET long == Len(full) > MAX_QUOTE_LENGTH
        result == IF long THEN base ELSE full
    IN  IF result = quote THEN Raised(NotModified, long) ELSE Returned(result, long)

transform_to_uwu(quote) ==
    Bind(UwuBase(quote), LAMBDA base :
        Bind(UwuStutter(base), LAMBDA full : UwuResult(quote, base, full)))

Vowels == {"a", "e", "i", "o", "u"}

word_to_piglatin(word) ==
    LET idx == {i \in 1..Len(word) : word[i] \in Vowels}
    IN  IF idx = {} THEN word
        ELSE LET first == CHOOSE i \in idx : \A j \in idx : i <= j
             IN  IF first = 1
                 THEN word \o <<"w", "a", "y">>
                 ELSE SubSeq(word, first, Len(word)) \o SubSeq(word, 1, first - 1)
                      \o <<"a", "y">>

PiglatinWords(words) == [i \in 1..Len(words) |-> word_to_piglatin(words[i])]

\* A variant of the pig-latin result without the length fallback
PiglatinResult_unbounded(quote, joined) ==
    IF joined = quote THEN Raised(NotModified, FALSE) ELSE Returned(joined, FALSE)

PiglatinResult(quote, joined) ==
    LET result == IF Len(joined) > MAX_QUOTE_LENGTH THEN quote ELSE joined
    IN  IF result = quote THEN Raised(NotModified, FALSE) ELSE Returned(result, FALSE)

transform_to_piglatin(quote) ==
    Bind(StrSplit(StrLower(quote)), LAMBDA words :
        Bind(StrCapitalize(StrJoin(<<" ">>, PiglatinWords(words))), LAMBDA joined :
            PiglatinResult(quote, joined)))

(***************************************************************************)
(* Quote: a record [quote, mode]; Str is Quote.__str__.                    *)
(***************************************************************************)
Quote(quote, mode) == [quote |-> quote, mode |-> mode]

Str(q) ==
    CASE q.mode = NORMAL -> Returned(q.quote, FALSE)
      [] q.mode = UWU -> transform_to_uwu(q.quote)
      [] q.mode = PIGLATIN -> transform_to_piglatin(q.quote)

(***************************************************************************)
(* Database: quotes is Database.quotes, the list of stored Quote objects.  *)
(***************************************************************************)
\* [str(quote) for quote in cls.quotes]: every stored quote is stringified again
StrEach(outs) ==
    LET bad == {i \in 1..Len(outs) : outs[i].raised # "none"}
        warn == \E i \in 1..Len(outs) : outs[i].warned
    IN  IF bad = {}
        THEN [raised |-> "none", ret |-> [i \in 1..Len(outs) |-> outs[i].ret],
              warned |-> warn]
        ELSE [raised |-> outs[CHOOSE i \in bad : \A j \in bad : i <= j].raised,
              ret |-> <<>>, warned |-> warn]

StrAll(qs) == Bind([i \in 1..Len(qs) |-> Str(qs[i])], StrEach)

\* A variant of get_quotes that lists the stored texts as they were entered
get_quotes_raw(qs) ==
    [raised |-> "none", ret |-> [i \in 1..Len(qs) |-> qs[i].quote], warned |-> FALSE]

get_quotes(qs) == StrAll(qs)

\* The outcome of Database.add_quote(quote): the exception raised and the new list
AddChecked(qs, quote, s, all) ==
    IF all.raised # "none"
    THEN [raised |-> all.raised, quotes |-> qs, warned |-> s.warned \/ all.warned]
    ELSE IF \E i \in 1..Len(all.ret) : all.ret[i] = s.ret
    THEN [raised |-> "DuplicateError", quotes |-> qs, warned |-> s.warned \/ all.warned]
    ELSE [raised |-> "none", quotes |-> Append(qs, quote),
          warned |-> s.warned \/ all.warned]

\* A variant of add_quote that looks for the Quote object, not its display string
add_quote_by_object(qs, quote) ==
    Bind(Str(quote), LAMBDA s :
        IF s.raised # "none"
        THEN [raised |-> s.raised, quotes |-> qs, warned |-> s.warned]
        ELSE IF \E i \in 1..Len(qs) : qs[i] = quote
        THEN [raised |-> "DuplicateError", quotes |-> qs, warned |-> s.warned]
        ELSE [raised |-> "none", quotes |-> Append(qs, quote), warned |-> s.warned])

add_quote(qs, quote) ==
    Bind(Str(quote), LAMBDA s :
        IF s.raised # "none"
        THEN [raised |-> s.raised, quotes |-> qs, warned |-> s.warned]
        ELSE Bind(StrAll(qs), LAMBDA all : AddChecked(qs, quote, s, all)))

(***************************************************************************)
(* shlex.split on command lines without escapes, comments and apostrophes: *)
(* unquoted whitespace separates tokens, a stretch between two quotation   *)
(* marks belongs to the token it is in, and the marks are dropped.         *)
(***************************************************************************)
LDQUO == "LEFT DOUBLE QUOTATION MARK"
RDQUO == "RIGHT DOUBLE QUOTATION MARK"
DQUOTE == "QUOTATION MARK"

\* Whether s[i] lies between an opening quotation mark and its closing one
Quoted(marks, i) ==
    \E k \in 1..Len(marks) : k % 2 = 1 /\ k < Len(marks) /\ marks[k] < i /\ i < marks[k + 1]

ShlexTokens(s, marks) ==
    Bind(RunsBetween(s, [i \in 1..Len(s) |-> s[i] \in Whitespace /\ ~Quoted(marks, i)]),
         LAMBDA runs :
            [k \in 1..Len(runs) |-> SelectSeq(runs[k], LAMBDA c : c # DQUOTE)])

ShlexSplit(s) ==
    Bind(SelectSeq(Indices(s), LAMBDA i : s[i] = DQUOTE), LAMBDA marks :
        IF Len(marks) % 2 = 1
        THEN [raised |-> "ValueError: No closing quotation", tokens |-> <<>>]
        ELSE [raised |-> "none", tokens |-> ShlexTokens(s, marks)])

(***************************************************************************)
(* run_command.  The outcome: the exception that leaves the call, what was *)
(* printed (one entry per print call), the tokens shlex.split gave, and    *)
(* the new list of stored quotes.                                          *)
(***************************************************************************)
QUOTE == <<"q", "u", "o", "t", "e">>
LIST == <<"l", "i", "s", "t">>

InvalidCommand == "ValueError: Invalid command"
QuoteTooLong == "ValueError: Quote is too long"

DuplicateNotice == <<"Q", "u", "o", "t", "e", " ", "h", "a", "s", " ", "a", "l", "r", "e", "a", "d", "y", " ", "b", "e", "e", "n", " ", "a", "d", "d", "e", "d", " ", "p", "r", "e", "v", "i", "o", "u", "s", "l", "y">>

Outcome(e, printed, w, toks, qs) ==
    [raised |-> e, printed |-> printed, warned |-> w, tokens |-> toks, quotes |-> qs]

\* 1 < len(args) > 2, Python's chained comparison: 1 < len(args) and len(args) > 2
ArityRejected(args) == 1 < Len(args) /\ Len(args) > 2

\* [f"- {quote}" for quote in Database.get_quotes()], joined with newlines
ListOutput(displays) ==
    StrJoin(<<"\n">>, [i \in 1..Len(displays) |-> <<"-", " ">> \o displays[i]])

\* A variant of the length check that is off by one
TooLong_off_by_one(quote) == Len(quote) > MAX_QUOTE_LENGTH + 1

\* len(quote) > MAX_QUOTE_LENGTH
TooLong(quote) == Len(quote) > MAX_QUOTE_LENGTH

\* The mode the command selects, or that the command is invalid
ModeOf(operation, quote) ==
    IF operation \in VariantMode THEN [raised |-> "none", mode |-> operation]
    ELSE IF operation = quote THEN [raised |-> "none", mode |-> NORMAL]
    ELSE [raised |-> InvalidCommand, mode |-> NORMAL]

ListCommand(toks, qs) ==
    Bind(get_quotes(qs), LAMBDA got :
        IF got.raised # "none"
        THEN Outcome(got.raised, <<>>, got.warned, toks, qs)
        ELSE Outcome("none", <<ListOutput(got.ret)>>, got.warned, toks, qs))

\* A variant of the insertion that lets DuplicateError leave the call
AddCommand_uncaught(toks, qs, quote, mode) ==
    Bind(add_quote(qs, Quote(quote, mode)), LAMBDA added :
        Outcome(added.raised, <<>>, added.warned, toks, added.quotes))

AddCommand(toks, qs, quote, mode) ==
    Bind(add_quote(qs, Quote(quote, mode)), LAMBDA added :
        IF added.raised = "DuplicateError"
        THEN Outcome("none", <<DuplicateNotice>>, added.warned, toks, qs)
        ELSE Outcome(added.raised, <<>>, added.warned, toks, added.quotes))

\* run_command from `name, *args = ...` on, given the tokens of the command
Dispatch(toks, qs) ==
    LET name == toks[1]
        args == SubSeq(toks, 2, Len(toks))
    IN  IF name # QUOTE \/ ArityRejected(args)
        THEN Outcome(InvalidCommand, <<>>, FALSE, toks, qs)
        ELSE IF Len(args) = 0
        THEN Outcome("IndexError: list index out of range", <<>>, FALSE, toks, qs)
        ELSE LET operation == args[1]
                 quote == args[Len(args)]
                 chosen == ModeOf(operation, quote)
             IN  IF operation = LIST THEN ListCommand(toks, qs)
                 ELSE IF TooLong(quote)
                 THEN Outcome(QuoteTooLong, <<>>, FALSE, toks, qs)
                 ELSE IF chosen.raised # "none"
                 THEN Outcome(chosen.raised, <<>>, FALSE, toks, qs)
                 ELSE AddCommand(toks, qs, quote, chosen.mode)

Unpack(split, qs) ==
    IF split.raised # "none"
    THEN Outcome(split.raised, <<>>, FALSE, <<>>, qs)
    ELSE IF Len(split.tokens) = 0
    THEN Outcome("ValueError: not enough values to unpack", <<>>, FALSE, <<>>, qs)
    ELSE Dispatch(split.tokens, qs)

run_command(command, qs) ==
    Bind(ShlexSplit(StrReplace(StrReplace(command, LDQUO, DQUOTE), RDQUO, DQUOTE)),
         LAMBDA split : Unpack(split, qs))

(***************************************************************************)
(* Command lines.  A command line is written from its tokens: a token      *)
(* without whitespace is written bare, any other token (the empty one      *)
(* too) between typographic quotes, as pasted from rich text.              *)
(***************************************************************************)
HasSpace(tok) == \E i \in 1..Len(tok) : tok[i] \in Whitespace

Written(tok) ==
    IF tok = <<>> \/ HasSpace(tok) THEN <<LDQUO>> \o tok \o <<RDQUO>> ELSE tok

CommandLine(toks) == StrJoin(<<" ">>, [i \in 1..Len(toks) |-> Written(toks[i])])

\* n copies of word, separated by single spaces
Rep(word, n) == StrJoin(<<" ">>, [i \in 1..n |-> word])

\* The stored quotes are capped: a command that would append runs only below the cap
MaxStore == 2

\* Dispatcher inputs: the sub-verbs, and short quote texts
Keywords == {LIST, NORMAL, UWU, PIGLATIN}

ShortTexts == {<<"l", " ", "a">>, <<"w", " ", "a">>, <<>>}

ShortTokens == Keywords \cup ShortTexts

ShortCommands ==
    {CommandLine(toks) : toks \in
        {<<>>, <<QUOTE>>, <<LIST, <<"l", " ", "a">>>>}
        \cup {<<QUOTE, a>> : a \in ShortTokens}
        \cup {<<QUOTE, a, b>> : a \in Keywords \cup {<<"l", " ", "a">>}, b \in ShortTexts}
        \cup {<<QUOTE, a, <<"l", " ", "a">>, <<"l", " ", "a">>>> : a \in Keywords}}

\* Dispatcher inputs around the length limit: 29, 32, 50 and 51 characters
LongTexts ==
    {Rep(<<"l", "a">>, 10), Rep(<<"u", "l">>, 11), Rep(<<"w", "a">>, 17),
     Rep(<<"l", "a">>, 17) \o <<"a">>}

LongCommands ==
    {CommandLine(toks) : toks \in
        {<<QUOTE, LIST>>}
        \cup {<<QUOTE, t>> : t \in LongTexts}
        \cup {<<QUOTE, a, t>> : a \in VariantMode, t \in LongTexts}
        \cup {<<QUOTE, a, t>> : a \in {LIST, <<"l", "a">>},
                                t \in {Rep(<<"l", "a">>, 10), Rep(<<"l", "a">>, 17) \o <<"a">>}}}

NoCall ==
    [fn |-> "none", command |-> <<>>, tokens |-> <<>>, before |-> <<>>,
     raised |-> "none", printed |-> <<>>, warned |-> FALSE]

Init ==
    /\ quotes = <<>>
    /\ call = NoCall

\* One call run_command(command), to completion
RunCommand(command) ==
    \E out \in {run_command(command, quotes)} :
        /\ Len(out.quotes) <= MaxStore
        /\ quotes' = out.quotes
        /\ call' = [fn |-> "run_command", command |-> command, tokens |-> out.tokens,
                    before |-> quotes, raised |-> out.raised, printed |-> out.printed,
                    warned |-> out.warned]

Next == \E command \in ShortCommands : RunCommand(command)

Spec == Init /\ [][Next]_vars

NextLong == \E command \in LongCommands : RunCommand(command)

SpecLong == Init /\ [][NextLong]_vars

(***************************************************************************)
(* The transformers on their own: an input is drawn, then one transformer  *)
(* is applied to it.                                                       *)
(***************************************************************************)
MaxLen == 3

MaxRep == 18

Alphabet == {"l", "R", "u", "U", "a", "t", " "}

RECURSIVE StringsUpTo(_)
StringsUpTo(n) ==
    IF n = 0 THEN {<<>>}
    ELSE LET shorter == StringsUpTo(n - 1)
         IN  shorter \cup {Append(s, c) : s \in shorter, c \in Alphabet}

Words == {w \in StringsUpTo(2) : w # <<>> /\ ~HasSpace(w)}

TransformInputs == StringsUpTo(MaxLen) \cup {Rep(w, n) : w \in Words, n \in 1..MaxRep}

InitTransform ==
    /\ quotes = <<>>
    /\ \E quote \in TransformInputs :
        call = [fn |-> "input", quote |-> quote, raised |-> "none", ret |-> <<>>,
                warned |-> FALSE]

CallUwu ==
    /\ call.fn = "input"
    /\ \E out \in {transform_to_uwu(call.quote)} :
        call' = [fn |-> "transform_to_uwu", quote |-> call.quote, raised |-> out.raised,
                 ret |-> out.ret, warned |-> out.warned]
    /\ UNCHANGED quotes

CallPiglatin ==
    /\ call.fn = "input"
    /\ \E out \in {transform_to_piglatin(call.quote)} :
        call' = [fn |-> "transform_to_piglatin", quote |-> call.quote,
                 raised |-> out.raised, ret |-> out.ret, warned |-> out.warned]
    /\ UNCHANGED quotes

NextTransform == CallUwu \/ CallPiglatin

SpecTransform == InitTransform /\ [][NextTransform]_vars

(***************************************************************************)
(* Properties of the dispatcher and the store.                             *)
(***************************************************************************)
Ran == call.fn = "run_command"

\* The arguments of the last command: its tokens after the first
Args == SubSeq(call.tokens, 2, Len(call.tokens))

LastArg == call.tokens[Len(call.tokens)]

\* The last command was `quote ...` with n arguments
QuoteWith(n) == Ran /\ Len(call.tokens) = n + 1 /\ call.tokens[1] = QUOTE

Display(q) == Str(q).ret

\* Some entry of the list qs shows as the string s
Shown(qs, s) == \E i \in 1..Len(qs) : Str(qs[i]).raised = "none" /\ Display(qs[i]) = s

\* C1: no two entries of the quote store have the same display string.
C1_UniqueDisplays ==
    \A i, j \in 1..Len(quotes) : i # j => Display(quotes[i]) # Display(quotes[j])

\* C1 witness: a uwu quote was refused because a stored normal quote shows the same.
C1_Witness ==
    /\ QuoteWith(2) /\ call.tokens[2] = UWU
    /\ transform_to_uwu(LastArg).raised = "none"
    /\ \E i \in 1..Len(quotes) :
        /\ quotes[i].mode = NORMAL
        /\ quotes[i].quote = transform_to_uwu(LastArg).ret
    /\ quotes = call.before

\* The last command was a well-formed add command: 1 or 2 arguments, not `list`, a
\* quote of at most MAX_QUOTE_LENGTH characters and a mode the dispatcher accepts.
WellFormedAdd ==
    /\ QuoteWith(1) \/ QuoteWith(2)
    /\ call.tokens[2] # LIST
    /\ Len(LastArg) <= MAX_QUOTE_LENGTH
    /\ call.tokens[2] \in VariantMode \/ call.tokens[2] = LastArg

\* The quote a well-formed add command constructs
Requested ==
    Quote(LastArg, IF call.tokens[2] \in VariantMode THEN call.tokens[2] ELSE NORMAL)

\* C2: a well-formed add command whose display string is already stored raises
\* nothing, prints the 'already added' notice and leaves the store as it was.
C2_DuplicateIsNotice ==
    (WellFormedAdd /\ Str(Requested).raised = "none"
        /\ Shown(call.before, Display(Requested)))
    => (call.raised = "none" /\ call.printed = <<DuplicateNotice>>
        /\ quotes = call.before)

\* C2 witness: a piglatin quote was submitted a second time, with two quotes stored.
C2_Witness ==
    /\ WellFormedAdd /\ call.tokens[2] = PIGLATIN
    /\ Str(Requested).raised = "none"
    /\ Shown(call.before, Display(Requested))
    /\ Len(call.before) = 2
    /\ call.printed = <<DuplicateNotice>>

\* C3: `quote` with 0 or more than 2 arguments fails with the invalid-command
\* error and leaves the store unchanged.
C3_ArityIsInvalidCommand ==
    (Ran /\ Len(call.tokens) >= 1 /\ call.tokens[1] = QUOTE
        /\ (Len(Args) = 0 \/ Len(Args) > 2))
    => (call.raised = InvalidCommand /\ quotes = call.before)

\* C4: `quote A B` with A neither `list` nor a mode name, and B of at most
\* MAX_QUOTE_LENGTH characters, fails with the invalid-command error and leaves
\* the store unchanged.
C4_UnknownModeIsInvalid ==
    (QuoteWith(2) /\ call.tokens[2] \notin VariantMode \cup {LIST}
        /\ Len(call.tokens[3]) <= MAX_QUOTE_LENGTH)
    => (call.raised = InvalidCommand /\ quotes = call.before)

\* C5: `quote T` with T not `list`, at most MAX_QUOTE_LENGTH characters and not yet
\* a stored display string appends exactly one normal-mode entry that shows as T.
C5_BareQuoteIsNormal ==
    (QuoteWith(1) /\ call.tokens[2] # LIST /\ Len(call.tokens[2]) <= MAX_QUOTE_LENGTH
        /\ ~Shown(call.before, call.tokens[2]))
    => (/\ Len(quotes) = Len(call.before) + 1
        /\ SubSeq(quotes, 1, Len(call.before)) = call.before
        /\ quotes[Len(quotes)].mode = NORMAL
        /\ Str(quotes[Len(quotes)]).raised = "none"
        /\ Display(quotes[Len(quotes)]) = call.tokens[2])

\* The lines of a printed text, and the number of newlines in it
LinesOf(text) == RunsBetween(text, [i \in 1..Len(text) |-> text[i] = "\n"])

Newlines(text) == Cardinality({i \in 1..Len(text) : text[i] = "\n"})

\* C9: `quote list`, with or without a second argument, prints the stored display
\* strings in insertion order, each after "- ", joined by newlines, and leaves the
\* store unchanged.
C9_ListPrintsStore ==
    ((QuoteWith(1) \/ QuoteWith(2)) /\ call.tokens[2] = LIST)
    => (/\ call.raised = "none"
        /\ quotes = call.before
        /\ Len(call.printed) = 1
        /\ Len(LinesOf(call.printed[1])) = Len(quotes)
        /\ Newlines(call.printed[1]) = (IF Len(quotes) = 0 THEN 0 ELSE Len(quotes) - 1)
        /\ \A i \in 1..Len(quotes) :
            LinesOf(call.printed[1])[i] = <<"-", " ">> \o Display(quotes[i]))

\* C9 witness: `quote list` with a second argument listed two stored quotes, the
\* first of them transformed.
C9_Witness ==
    /\ QuoteWith(2) /\ call.tokens[2] = LIST
    /\ Len(quotes) = 2
    /\ quotes[1].mode # NORMAL
    /\ Display(quotes[1]) # Display(quotes[2])
    /\ Len(call.printed) = 1

(***************************************************************************)
(* Properties around the length limit, under SpecLong.                     *)
(***************************************************************************)
\* C8: `quote ...` with 1 or 2 arguments, the first not `list` and the last longer
\* than MAX_QUOTE_LENGTH, fails with the too-long error and leaves the store
\* unchanged.
C8_TooLongRejected ==
    ((QuoteWith(1) \/ QuoteWith(2)) /\ call.tokens[2] # LIST
        /\ Len(LastArg) > MAX_QUOTE_LENGTH)
    => (call.raised = QuoteTooLong /\ quotes = call.before /\ call.printed = <<>>)

\* C8 witness: a uwu command with a quote of MAX_QUOTE_LENGTH + 1 characters, which
\* the transformer would have changed, was refused with a quote already stored.
C8_Witness ==
    /\ QuoteWith(2) /\ call.tokens[2] = UWU
    /\ Len(LastArg) = MAX_QUOTE_LENGTH + 1
    /\ transform_to_uwu(LastArg).raised = "none"
    /\ call.raised = QuoteTooLong
    /\ Len(call.before) > 0

\* C10: every stored entry's display string has at most MAX_QUOTE_LENGTH characters.
C10_StoredDisplaysFit ==
    \A i \in 1..Len(quotes) :
        Str(quotes[i]).raised = "none" /\ Len(Display(quotes[i])) <= MAX_QUOTE_LENGTH

\* C10 witness: a uwu quote whose full transformation is too long is stored partly
\* transformed, and a pig-latin command whose result is too long has just failed.
C10_Witness ==
    /\ \E i \in 1..Len(quotes) :
        /\ quotes[i].mode = UWU
        /\ Len(UwuStutter(UwuBase(quotes[i].quote))) > MAX_QUOTE_LENGTH
    /\ QuoteWith(2) /\ call.tokens[2] = PIGLATIN
    /\ Len(LastArg) <= MAX_QUOTE_LENGTH
    /\ call.raised = NotModified
    /\ quotes = call.before

(***************************************************************************)
(* Properties of the transformers, under SpecTransform.                    *)
(***************************************************************************)
\* No letter l, L, r, R, and no whitespace-separated word that starts with u or U
NothingToUwu(quote) ==
    \A i \in 1..Len(quote) :
        /\ quote[i] \notin {"l", "L", "r", "R"}
        /\ quote[i] \in {"u", "U"} => (i > 1 /\ quote[i - 1] \notin Whitespace)

\* C6: transform_to_uwu fails with 'Quote was not modified' on every input without
\* l, L, r, R and without a word that starts with u or U.
C6_NothingToUwuFails ==
    (call.fn = "transform_to_uwu" /\ NothingToUwu(call.quote))
    => call.raised = NotModified

\* C7: when the full uwu result is longer than MAX_QUOTE_LENGTH, transform_to_uwu
\* warns and returns the letter-substituted string without the stutter prefixes.
C7_LongUwuSucceeds ==
    (call.fn = "transform_to_uwu"
        /\ Len(UwuStutter(UwuBase(call.quote))) > MAX_QUOTE_LENGTH)
    => (call.raised = "none" /\ call.warned /\ call.ret = UwuBase(call.quote))

====
